---- MODULE Spec2Model ----
(***************************************************************************)
(* Model of the map-data cache (cache.py) and of the in-memory job         *)
(* registry (app/services/job_manager.py).                                 *)
(*                                                                         *)
(* The cache is a directory tree: CACHE_DIR / <cache_key> / {graph.pkl,    *)
(* water.pkl, parks.pkl, meta.json}.  A file is modelled by its bytes:     *)
(* <<>> when the file does not exist, <<"trunc">> for a truncated or       *)
(* otherwise unreadable file, <<"pkl", obj>> for a pickle of obj and       *)
(* <<"json", dict>> for a JSON document.  The graph, water and parks       *)
(* objects handed to save_to_cache are named by the data set they belong   *)
(* to (1, 2, ...); None is 0.                                              *)
(***************************************************************************)
EXTENDS Integers, Sequences, FiniteSets, TLC

\* ---------------------------------------------------------------- bounds
MaxNow == 31           \* last value of the local clock (days)
MaxKwargs == 2         \* fields given to one update_job call
MaxLen == 2            \* length of the city and country names given to get_cache_key

\* ------------------------------------------------------ program constants
CACHE_EXPIRY_DAYS == 30

None == 0
NoCoords == <<>>                      \* coords = None
Absent == <<>>                        \* the file does not exist
Truncated == <<"trunc">>              \* partially written / unparsable bytes

FileNames == {"graph.pkl", "water.pkl", "parks.pkl", "meta.json"}
TickDays == {30, 31}                  \* clock steps: 0 -> 30, 0 -> 31

\* ------------------------------------------------------------ cache keys
LowerChar(c) ==
  CASE c = "A" -> "a"
    [] c = "B" -> "b"
    [] c = "U" -> "u"
    [] OTHER -> c

\* str.lower()
LowerNoOp(s) == s
Lower(s) == [i \in DOMAIN s |-> LowerChar(s[i])]

\* str.replace(" ", "_")
SpaceToUnderscore(s) == [i \in DOMAIN s |-> IF s[i] = " " THEN "_" ELSE s[i]]

IsNotComma(c) == c # ","

\* str.replace(",", "")
StripCommas(s) == SelectSeq(s, IsNotComma)

DigitChar(d) ==
  CASE d = 0 -> "0" [] d = 1 -> "1" [] d = 2 -> "2" [] d = 3 -> "3"
    [] d = 4 -> "4" [] d = 5 -> "5" [] d = 6 -> "6" [] d = 7 -> "7"
    [] d = 8 -> "8" [] OTHER -> "9"

RECURSIVE IntToStr(_)
\* f"{distance}" for a non-negative int
IntToStr(n) == IF n < 10 THEN <<DigitChar(n)>>
               ELSE IntToStr(n \div 10) \o <<DigitChar(n % 10)>>

city_slug(city) == StripCommas(SpaceToUnderscore(Lower(city)))
country_slug(country) == SpaceToUnderscore(Lower(country))

get_cache_key(city, country, distance) ==
  city_slug(city) \o <<"_">> \o country_slug(country) \o <<"_">> \o IntToStr(distance)

\* The locations requested in the model: (city, country, distance).
Locs == { [city |-> <<"A", " ", "b">>, country |-> <<"U">>, distance |-> 1],
          [city |-> <<"A", " ", "b">>, country |-> <<"U">>, distance |-> 10],
          [city |-> <<"c">>, country |-> <<"u">>, distance |-> 2] }

KeyOf(loc) == get_cache_key(loc.city, loc.country, loc.distance)

Keys == { KeyOf(loc) : loc \in Locs }

\* the location whose entry the cache operations of Spec work on
SpecLocs == { [city |-> <<"A", " ", "b">>, country |-> <<"U">>, distance |-> 1] }

\* (lat, lon) tuples passed as coords; NoCoords stands for coords = None
CoordsArgs == { NoCoords, <<48, 2>> }

\* the data sets (fetched geodata) a caller can hand to save_to_cache
DataSets == {1, 2}

VARIABLES
  root,      \* CACHE_DIR exists
  dirs,      \* the entry directories under CACHE_DIR
  files,     \* files[k][f]: bytes of CACHE_DIR/k/f
  now,       \* datetime.now(), in days
  sv,        \* the save_to_cache call in progress, or the two concurrent ones
  ld,        \* the load_from_cache call in progress
  ret,       \* what the call that finished in the last step gave its caller
  completed, \* for each key, the last save_to_cache call that returned True, as
             \* long as its graph.pkl and meta.json are the ones on disk
  jobs       \* job_manager.jobs

vars == <<root, dirs, files, now, sv, ld, ret, completed, jobs>>

NoRet == [op |-> "none"]
Idle == [pc |-> "idle"]

\* ------------------------------------------------------- file primitives
\* Path.exists()
Exists(k, f) == files[k][f] # Absent

\* pickle.dump(obj, f) / json.dump(d, f): the bytes a complete write leaves
PickleBytes(obj) == <<"pkl", obj>>
JsonBytes(d) == <<"json", d>>

\* datetime.isoformat() and datetime.fromisoformat()
IsoFormat(t) == <<"iso", t>>
FromIsoFormat(s) == s[2]

\* list(coords) / tuple(meta["coords"])
ListOf(c) == <<"list", c>>
TupleOf(l) == l[2]

\* A value, or an exception on its way up the stack
Ok(v) == [exc |-> FALSE, val |-> v]
Raised == [exc |-> TRUE]

\* open(f, "rb"); pickle.load(f)
PickleLoad(k, f) ==
  LET b == files[k][f]
  IN IF Len(b) = 2 /\ b[1] = "pkl" THEN Ok(b[2]) ELSE Raised

\* open(f, "r"); json.load(f)
JsonLoad(k, f) ==
  LET b == files[k][f]
  IN IF Len(b) = 2 /\ b[1] = "json" THEN Ok(b[2]) ELSE Raised

\* meta.json of entry k parses and holds a cached_at timestamp
HasTimestamp(k) ==
  LET b == files[k]["meta.json"]
  IN Len(b) = 2 /\ b[1] = "json" /\ "cached_at" \in DOMAIN b[2]

\* now - cached_at, in days, of an entry that has a timestamp
Age(k) == now - files[k]["meta.json"][2]["cached_at"][2]

\* the stored cached_at lies more than 30 days before now
ExpiredEntry(k) == HasTimestamp(k) /\ Age(k) > CACHE_EXPIRY_DAYS

\* try: <body> except Exception: return <v>
Catch(body, v) == IF body.exc THEN Ok(v) ELSE body

\* ------------------------------------------------------- is_cache_valid
\* datetime.now() > cached_time + timedelta(days=CACHE_EXPIRY_DAYS)
ExpiredNoGrace(cached_time) == now >= cached_time + CACHE_EXPIRY_DAYS
ExpiredNever(cached_time) == FALSE
Expired(cached_time) == now > cached_time + CACHE_EXPIRY_DAYS

required_files == {"graph.pkl", "meta.json"}

\* the body of the try block of is_cache_valid
is_cache_valid_try(k) ==
  LET meta == JsonLoad(k, "meta.json")
  IN IF meta.exc THEN Raised
     ELSE IF "cached_at" \notin DOMAIN meta.val THEN Raised      \* KeyError
     ELSE IF Expired(FromIsoFormat(meta.val["cached_at"])) THEN Ok(FALSE)
     ELSE IF \E f \in required_files : ~Exists(k, f) THEN Ok(FALSE)
     ELSE Ok(TRUE)

is_cache_valid(k) ==
  IF ~Exists(k, "meta.json") THEN Ok(FALSE) ELSE Catch(is_cache_valid_try(k), FALSE)

\* ------------------------------------------------------ load_from_cache
Miss == [hit |-> FALSE]                     \* load_from_cache returns None

\* no save_to_cache call was started together with the load
NoOverlap == [saving |-> FALSE]

\* the locals of a load_from_cache call at its first statement; validAtCall
\* and expiredAtCall record what held when the call was made, overlaps the
\* save_to_cache call that runs at the same time
LoadStart(k) == [pc |-> "valid", key |-> k, meta |-> <<>>,
                 graph |-> None, water |-> None, parks |-> None,
                 out |-> Ok(Miss),
                 validAtCall |-> is_cache_valid(k) = Ok(TRUE),
                 expiredAtCall |-> ExpiredEntry(k),
                 overlaps |-> NoOverlap]

LoadDone(l, out) == [l EXCEPT !.pc = "done", !.out = out]

\* the dict load_from_cache returns, or the KeyError of a missing field
LoadResultSwapped(l) ==
  IF {"coords", "city", "country", "distance", "cached_at"} \subseteq DOMAIN l.meta
  THEN Ok([hit |-> TRUE, graph |-> l.graph, water |-> l.parks, parks |-> l.water,
           coords |-> TupleOf(l.meta["coords"]), city |-> l.meta["city"],
           country |-> l.meta["country"], distance |-> l.meta["distance"],
           cached_at |-> l.meta["cached_at"]])
  ELSE Raised
LoadResult(l) ==
  IF {"coords", "city", "country", "distance", "cached_at"} \subseteq DOMAIN l.meta
  THEN Ok([hit |-> TRUE, graph |-> l.graph, water |-> l.water, parks |-> l.parks,
           coords |-> TupleOf(l.meta["coords"]), city |-> l.meta["city"],
           country |-> l.meta["country"], distance |-> l.meta["distance"],
           cached_at |-> l.meta["cached_at"]])
  ELSE Raised

\* the optional blob f of load_from_cache: None when the file is not there
LoadOptionalRequired(k, f) == PickleLoad(k, f)
LoadOptional(k, f) == IF Exists(k, f) THEN PickleLoad(k, f) ELSE Ok(None)

\* if not is_cache_valid(cache_key): return None
LoadValidStep(l) ==
  LET v == is_cache_valid(l.key)
  IN IF v.exc THEN LoadDone(l, Raised)
     ELSE IF ~v.val THEN LoadDone(l, Ok(Miss))
     ELSE [l EXCEPT !.pc = "meta"]

\* one statement of the try block of load_from_cache
LoadTryStep(l) ==
  CASE l.pc = "meta" ->
         LET r == JsonLoad(l.key, "meta.json")
         IN IF r.exc THEN LoadDone(l, Raised)
            ELSE [l EXCEPT !.pc = "graph", !.meta = r.val]
    [] l.pc = "graph" ->
         LET r == PickleLoad(l.key, "graph.pkl")
         IN IF r.exc THEN LoadDone(l, Raised)
            ELSE [l EXCEPT !.pc = "water", !.graph = r.val]
    [] l.pc = "water" ->
         LET r == LoadOptional(l.key, "water.pkl")
         IN IF r.exc THEN LoadDone(l, Raised)
            ELSE [l EXCEPT !.pc = "parks", !.water = r.val]
    [] l.pc = "parks" ->
         LET r == LoadOptional(l.key, "parks.pkl")
         IN IF r.exc THEN LoadDone(l, Raised)
            ELSE [l EXCEPT !.pc = "return", !.parks = r.val]
    [] OTHER -> LoadDone(l, LoadResult(l))

LoadReadStepNoExcept(l) == LoadTryStep(l)
\* the try block of load_from_cache: an exception leaves through
\* "except Exception: return None"
LoadReadStep(l) ==
  LET n == LoadTryStep(l)
  IN IF n.pc = "done" /\ n.out.exc THEN LoadDone(l, Ok(Miss)) ELSE n

LoadStep(l) == IF l.pc = "valid" THEN LoadValidStep(l) ELSE LoadReadStep(l)

RECURSIVE LoadRun(_)
LoadRun(l) == IF l.pc = "done" THEN l.out ELSE LoadRun(LoadStep(l))

\* load_from_cache(k) run to its end on the files as they are now
load_from_cache(k) == LoadRun(LoadStart(k))

\* ------------------------------------------------------- save_to_cache
\* the order in which save_to_cache writes its files
SaveOrderMetaFirst == <<"meta.json", "graph.pkl", "water.pkl", "parks.pkl">>
SaveOrder == <<"graph.pkl", "water.pkl", "parks.pkl", "meta.json">>

\* the argument save_to_cache pickles into blob file f
BlobArg(c, f) ==
  CASE f = "graph.pkl" -> c.graph
    [] f = "water.pkl" -> c.water
    [] OTHER -> c.parks

\* "if water is not None:" / "if parks is not None:"
SkipsWrite(c, f) == f \in {"water.pkl", "parks.pkl"} /\ BlobArg(c, f) = None

\* list(coords) raises TypeError when coords is None
MetaRaises(c, f) == f = "meta.json" /\ c.coords = NoCoords

\* the meta dict of save_to_cache
MetaDict(c) ==
  [city |-> c.city, country |-> c.country, distance |-> c.distance,
   coords |-> ListOf(c.coords), cached_at |-> IsoFormat(now)]

\* the bytes a complete write of file f leaves
SaveBytes(c, f) ==
  IF f = "meta.json" THEN JsonBytes(MetaDict(c)) ELSE PickleBytes(BlobArg(c, f))

WriteOutcomes == {"ok", "open_fails", "write_fails"}

\* open(path, "w"/"wb") truncates; a failing dump leaves a truncated file
FilesAfterWriteExclusive(k, f, bytes, outcome) ==
  IF outcome = "ok" /\ k \in dirs /\ files[k][f] = Absent
  THEN [files EXCEPT ![k][f] = bytes]
  ELSE files
FilesAfterWrite(k, f, bytes, outcome) ==
  CASE outcome = "ok" /\ k \in dirs -> [files EXCEPT ![k][f] = bytes]
    [] outcome = "write_fails" /\ k \in dirs -> [files EXCEPT ![k][f] = Truncated]
    [] OTHER -> files

WriteSucceeds(k, outcome) == outcome = "ok" /\ k \in dirs

\* the arguments of one save_to_cache call
SaveArgs(loc, d, hasWater, hasParks, coords) ==
  [key |-> KeyOf(loc), graph |-> d,
   water |-> IF hasWater THEN d ELSE None,
   parks |-> IF hasParks THEN d ELSE None,
   coords |-> coords, city |-> loc.city, country |-> loc.country,
   distance |-> loc.distance,
   hadMeta |-> Exists(KeyOf(loc), "meta.json")]

\* what the caller of save_to_cache gets, with the arguments of a call that
\* returned True
SaveRet(c, out) ==
  IF ~out.exc /\ out.val
  THEN [op |-> "save", key |-> c.key, out |-> out, call |-> c, cached_at |-> now]
  ELSE [op |-> "save", key |-> c.key, out |-> out]

\* the meta dict a save that returned True has written
CompletedMeta(c) ==
  [city |-> c.call.city, country |-> c.call.country, distance |-> c.call.distance,
   coords |-> ListOf(c.call.coords), cached_at |-> IsoFormat(c.cached_at)]

\* the completed saves whose graph.pkl and meta.json are the ones in fs
StillOnDisk(fs) ==
  { c \in completed : /\ fs[c.call.key]["graph.pkl"] = PickleBytes(c.call.graph)
                      /\ fs[c.call.key]["meta.json"] = JsonBytes(CompletedMeta(c)) }

\* ------------------------------------------------------------- actions
Quiescent == sv.pc = "idle" /\ ld.pc = "idle"

SaveCall(loc, d, hasWater, hasParks, coords) ==
  /\ Quiescent
  /\ sv' = [pc |-> "mkdir", i |-> 1,
            call |-> SaveArgs(loc, d, hasWater, hasParks, coords)]
  /\ ret' = NoRet
  /\ UNCHANGED <<root, dirs, files, now, ld, completed, jobs>>

\* cache_path.mkdir(parents=True, exist_ok=True), outside the try block
SaveMkdir(ok) ==
  /\ sv.pc = "mkdir"
  /\ IF ok
     THEN /\ root' = TRUE
          /\ dirs' = dirs \cup {sv.call.key}
          /\ sv' = [sv EXCEPT !.pc = "write"]
          /\ ret' = NoRet
     ELSE /\ sv' = Idle
          /\ ret' = SaveRet(sv.call, Raised)
          /\ UNCHANGED <<root, dirs>>
  /\ UNCHANGED <<files, now, ld, completed, jobs>>

\* save_to_cache returns out, the files being fs
SaveReturns(out, fs) ==
  /\ sv' = Idle
  /\ ret' = SaveRet(sv.call, out)
  /\ completed' = IF ~out.exc /\ out.val
                  THEN { c \in StillOnDisk(fs) : c.call.key # sv.call.key }
                         \cup {[call |-> [sv.call EXCEPT !.hadMeta = FALSE],
                                 cached_at |-> now]}
                  ELSE StillOnDisk(fs)

SaveGoesOn(fs) ==
  /\ sv' = [sv EXCEPT !.i = sv.i + 1]
  /\ ret' = NoRet
  /\ completed' = StillOnDisk(fs)

\* one statement of the try block of save_to_cache
SaveWrite(outcome) ==
  /\ sv.pc = "write"
  /\ LET c == sv.call
         f == SaveOrder[sv.i]
         last == sv.i = Len(SaveOrder)
     IN IF SkipsWrite(c, f)
        THEN /\ outcome = "ok"
             /\ files' = files
             /\ IF last THEN SaveReturns(Ok(TRUE), files) ELSE SaveGoesOn(files)
        ELSE IF MetaRaises(c, f)
        THEN /\ outcome = "ok"
             /\ files' = files
             /\ SaveReturns(Ok(FALSE), files)
        ELSE LET fs == FilesAfterWrite(c.key, f, SaveBytes(c, f), outcome)
             IN /\ files' = fs
                /\ IF ~WriteSucceeds(c.key, outcome) THEN SaveReturns(Ok(FALSE), fs)
                   ELSE IF last THEN SaveReturns(Ok(TRUE), fs)
                   ELSE SaveGoesOn(fs)
  /\ UNCHANGED <<root, dirs, now, ld, jobs>>

\* the process dies inside save_to_cache: between two statements, or (midWrite)
\* inside the write the call was about to do
Crash(midWrite) ==
  /\ sv.pc \in {"mkdir", "write"}
  /\ LET c == sv.call
         f == SaveOrder[sv.i]
     IN IF midWrite
        THEN /\ sv.pc = "write"
             /\ ~SkipsWrite(c, f)
             /\ ~MetaRaises(c, f)
             /\ c.key \in dirs
             /\ files' = [files EXCEPT ![c.key][f] = Truncated]
        ELSE files' = files
  /\ sv' = Idle
  /\ ret' = [op |-> "crash", key |-> sv.call.key, hadMeta |-> sv.call.hadMeta]
  /\ completed' = StillOnDisk(files')
  /\ UNCHANGED <<root, dirs, now, ld, jobs>>

\* ------------------------------------ load_from_cache during save_to_cache
\* open(path, "wb") / open(path, "w") of the file the call is about to write:
\* the file is empty until the dump is through, and other tasks can see that
SaveOpens ==
  /\ sv.pc = "write"
  /\ LET c == sv.call
         f == SaveOrder[sv.i]
     IN /\ ~SkipsWrite(c, f)
        /\ ~MetaRaises(c, f)
        /\ c.key \in dirs
        /\ files[c.key][f] # Truncated
        /\ files' = [files EXCEPT ![c.key][f] = Truncated]
  /\ ret' = NoRet
  /\ completed' = StillOnDisk(files')
  /\ UNCHANGED <<root, dirs, now, sv, ld, jobs>>

\* one task calls save_to_cache for a location while another calls
\* load_from_cache for the same key; the load keeps, for its caller's view,
\* the arguments of the save and the entry that was on disk
OverlapCall(loc, d, o) ==
  /\ Quiescent
  /\ sv' = [pc |-> "mkdir", i |-> 1,
            call |-> SaveArgs(loc, d, o, o, <<48, 2>>)]
  /\ ld' = [LoadStart(KeyOf(loc)) EXCEPT
              !.overlaps = [saving |-> TRUE,
                            call |-> SaveArgs(loc, d, o, o, <<48, 2>>),
                            old |-> files[KeyOf(loc)]]]
  /\ ret' = NoRet
  /\ UNCHANGED <<root, dirs, files, now, completed, jobs>>

\* ------------------------------------------- two concurrent save_to_cache
\* the locals of one of two save_to_cache calls that run at the same time
RaceProc(c) == [pc |-> "mkdir", i |-> 1, call |-> c, out |-> Ok(FALSE), cached_at |-> 0]

\* two callers save different data (data sets 1 and 2) under the same key,
\* each with or without the optional water and parks
RaceCall(loc, oa, ob) ==
  /\ Quiescent
  /\ sv' = [pc |-> "race",
            procs |-> <<RaceProc(SaveArgs(loc, 1, oa, oa, <<48, 2>>)),
                        RaceProc(SaveArgs(loc, 2, ob, ob, <<48, 2>>))>>,
            last |-> [f \in FileNames |-> 0]]
  /\ ret' = NoRet
  /\ UNCHANGED <<root, dirs, files, now, ld, completed, jobs>>

\* cache_path.mkdir(parents=True, exist_ok=True) of call p
RaceMkdir(p, ok) ==
  /\ sv.pc = "race"
  /\ sv.procs[p].pc = "mkdir"
  /\ IF ok
     THEN /\ root' = TRUE
          /\ dirs' = dirs \cup {sv.procs[p].call.key}
          /\ sv' = [sv EXCEPT !.procs[p].pc = "write"]
     ELSE /\ sv' = [sv EXCEPT !.procs[p].pc = "done", !.procs[p].out = Raised]
          /\ UNCHANGED <<root, dirs>>
  /\ ret' = NoRet
  /\ UNCHANGED <<files, now, ld, completed, jobs>>

\* call p returns out
RaceDone(p, out) ==
  [sv EXCEPT !.procs[p].pc = "done", !.procs[p].out = out, !.procs[p].cached_at = now]

\* one statement of the try block of call p; last[f] is the call that opened
\* file f for writing last
RaceWrite(p, outcome) ==
  /\ sv.pc = "race"
  /\ sv.procs[p].pc = "write"
  /\ LET c == sv.procs[p].call
         f == SaveOrder[sv.procs[p].i]
         last == sv.procs[p].i = Len(SaveOrder)
         next == [sv EXCEPT !.procs[p].i = @ + 1]
     IN IF SkipsWrite(c, f)
        THEN /\ outcome = "ok"
             /\ files' = files
             /\ sv' = IF last THEN RaceDone(p, Ok(TRUE)) ELSE next
        ELSE IF MetaRaises(c, f)
        THEN /\ outcome = "ok"
             /\ files' = files
             /\ sv' = RaceDone(p, Ok(FALSE))
        ELSE LET fs == FilesAfterWrite(c.key, f, SaveBytes(c, f), outcome)
                 wrote == [sv EXCEPT !.last[f] = IF outcome # "open_fails" /\ c.key \in dirs
                                                  THEN p ELSE @]
             IN /\ files' = fs
                /\ sv' = IF ~WriteSucceeds(c.key, outcome)
                            THEN [wrote EXCEPT !.procs[p].pc = "done",
                                               !.procs[p].out = Ok(FALSE)]
                          ELSE IF last
                            THEN [wrote EXCEPT !.procs[p].pc = "done",
                                               !.procs[p].out = Ok(TRUE),
                                               !.procs[p].cached_at = now]
                          ELSE [wrote EXCEPT !.procs[p].i = @ + 1]
  /\ ret' = NoRet
  /\ completed' = StillOnDisk(files')
  /\ UNCHANGED <<root, dirs, now, ld, jobs>>

\* both calls have returned
RaceReturn ==
  /\ sv.pc = "race"
  /\ \A p \in {1, 2} : sv.procs[p].pc = "done"
  /\ sv' = Idle
  /\ ret' = [op |-> "race", key |-> sv.procs[1].call.key,
             procs |-> sv.procs, last |-> sv.last]
  /\ UNCHANGED <<root, dirs, files, now, ld, completed, jobs>>

LoadCall(k) ==
  /\ Quiescent
  /\ ld' = LoadStart(k)
  /\ ret' = NoRet
  /\ UNCHANGED <<root, dirs, files, now, sv, completed, jobs>>

\* the next statement of the load_from_cache call in progress
LoadAdvanceEvicts ==
  /\ ld.pc \notin {"idle", "done"}
  /\ LET n == LoadStep(ld)
     IN IF n.pc = "done"
        THEN /\ ld' = Idle
             /\ ret' = [op |-> "load", key |-> ld.key, out |-> n.out,
                        validAtCall |-> ld.validAtCall,
                        expiredAtCall |-> ld.expiredAtCall,
                        overlaps |-> ld.overlaps]
             /\ IF ld.expiredAtCall
                THEN /\ dirs' = dirs \ {ld.key}
                     /\ files' = [files EXCEPT ![ld.key] = [f \in FileNames |-> Absent]]
                ELSE UNCHANGED <<dirs, files>>
        ELSE /\ ld' = n
             /\ ret' = NoRet
             /\ UNCHANGED <<dirs, files>>
  /\ UNCHANGED <<root, now, sv, completed, jobs>>
LoadAdvance ==
  /\ ld.pc \notin {"idle", "done"}
  /\ LET n == LoadStep(ld)
     IN IF n.pc = "done"
        THEN /\ ld' = Idle
             /\ ret' = [op |-> "load", key |-> ld.key, out |-> n.out,
                        validAtCall |-> ld.validAtCall,
                        expiredAtCall |-> ld.expiredAtCall,
                        overlaps |-> ld.overlaps]
        ELSE /\ ld' = n
             /\ ret' = NoRet
  /\ UNCHANGED <<root, dirs, files, now, sv, completed, jobs>>

IsCacheValidCall(k) ==
  /\ Quiescent
  /\ ret' = [op |-> "is_cache_valid", key |-> k, out |-> is_cache_valid(k)]
  /\ UNCHANGED <<root, dirs, files, now, sv, ld, completed, jobs>>

\* ------------------------------------------------------------ clear_cache
NoFiles == [f \in FileNames |-> Absent]

\* clear_cache(cache_key): shutil.rmtree(cache_path) when it exists
ClearCache(k) ==
  /\ Quiescent
  /\ dirs' = dirs \ {k}
  /\ files' = [files EXCEPT ![k] = NoFiles]
  /\ ret' = [op |-> "clear", key |-> k]
  /\ completed' = StillOnDisk(files')
  /\ UNCHANGED <<root, now, sv, ld, jobs>>

\* clear_cache(): rmtree and mkdir of CACHE_DIR, only when CACHE_DIR exists
ClearAll ==
  /\ Quiescent
  /\ dirs' = {}
  /\ files' = [k \in Keys |-> NoFiles]
  /\ ret' = [op |-> "clear_all"]
  /\ completed' = {}
  /\ UNCHANGED <<root, now, sv, ld, jobs>>

\* ------------------------------------------------------------- list_cache
\* the orders in which CACHE_DIR.iterdir() can yield the entries
IterOrders ==
  { o \in [1..Cardinality(dirs) -> dirs] :
      \A i, j \in DOMAIN o : i # j => o[i] # o[j] }

RECURSIVE ListFrom(_, _, _)
\* the loop of list_cache from position i on; json.load is not guarded
ListFrom(order, i, entries) ==
  IF i > Len(order) THEN Ok(entries)
  ELSE IF ~Exists(order[i], "meta.json") THEN ListFrom(order, i + 1, entries)
  ELSE LET meta == JsonLoad(order[i], "meta.json")
       IN IF meta.exc THEN Raised
          ELSE ListFrom(order, i + 1, Append(entries, meta.val))

list_cache(order) == IF ~root THEN Ok(<<>>) ELSE ListFrom(order, 1, <<>>)

ListCacheCall(order) ==
  /\ Quiescent
  /\ ret' = [op |-> "list", out |-> list_cache(order)]
  /\ UNCHANGED <<root, dirs, files, now, sv, ld, completed, jobs>>

\* --------------------------------------------------- find_cached_location
\* str.startswith(prefix)
StartsWithWholeName(s, prefix) == s = prefix
StartsWith(s, prefix) ==
  /\ Len(prefix) <= Len(s)
  /\ \A i \in 1..Len(prefix) : s[i] = prefix[i]

Prefix(city, country) == city_slug(city) \o <<"_">> \o country_slug(country) \o <<"_">>

NotFound == [hit |-> FALSE]

RECURSIVE FindFrom(_, _, _)
\* the loop of find_cached_location; a failing json.load is skipped ("except: continue")
FindFrom(order, i, prefix) ==
  IF i > Len(order) THEN Ok(NotFound)
  ELSE IF StartsWith(order[i], prefix) /\ Exists(order[i], "meta.json")
  THEN LET meta == JsonLoad(order[i], "meta.json")
       IN IF meta.exc THEN FindFrom(order, i + 1, prefix)
          ELSE Ok([hit |-> TRUE, meta |-> meta.val, cache_key |-> order[i]])
  ELSE FindFrom(order, i + 1, prefix)

find_cached_location(city, country, order) ==
  IF ~root THEN Ok(NotFound) ELSE FindFrom(order, 1, Prefix(city, country))

FindCall(loc, order) ==
  /\ Quiescent
  /\ ret' = [op |-> "find", city |-> loc.city, country |-> loc.country,
             out |-> find_cached_location(loc.city, loc.country, order)]
  /\ UNCHANGED <<root, dirs, files, now, sv, ld, completed, jobs>>

\* ------------------------------------------------------------ environment
\* time passes
Tick(d) ==
  /\ now + d <= MaxNow
  /\ now' = now + d
  /\ ret' = NoRet
  /\ UNCHANGED <<root, dirs, files, sv, ld, completed, jobs>>

\* someone removes one file of an entry (the tests of the expiry and of the
\* missing-file cases edit the cache directory by hand)
ExternalDelete(k, f) ==
  /\ Exists(k, f)
  /\ files' = [files EXCEPT ![k][f] = Absent]
  /\ ret' = NoRet
  /\ completed' = StillOnDisk(files')
  /\ UNCHANGED <<root, dirs, now, sv, ld, jobs>>

\* someone rewrites meta.json without one of its fields
ExternalStrip(k, field) ==
  /\ ~JsonLoad(k, "meta.json").exc
  /\ LET m == JsonLoad(k, "meta.json").val
     IN /\ field \in DOMAIN m
        /\ files' = [files EXCEPT
                       ![k]["meta.json"] = JsonBytes([x \in DOMAIN m \ {field} |-> m[x]])]
  /\ ret' = NoRet
  /\ completed' = StillOnDisk(files')
  /\ UNCHANGED <<root, dirs, now, sv, ld, jobs>>

\* ------------------------------------------------------------ get_cache_key
CityChars == {"A", "a", "b", " ", "_", ","}
CountryChars == {"U", "u", " "}
Distances == {2, 10}

\* the non-empty strings over chars of length up to MaxLen
Strs(chars) == UNION { [1..n -> chars] : n \in 1..MaxLen }

\* one call of get_cache_key; the function reads no state, so one call from
\* the initial state shows all it does
GetCacheKeyCall(city, country, distance) ==
  /\ ret.op = "none"
  /\ ret' = [op |-> "get_cache_key", city |-> city, country |-> country,
             distance |-> distance, out |-> get_cache_key(city, country, distance)]
  /\ UNCHANGED <<root, dirs, files, now, sv, ld, completed, jobs>>

\* ------------------------------------------------------------ job_manager
JobIds == {"j1", "j2"}                 \* the strings uuid.uuid4() can return
Requests == {"r1", "r2"}               \* request.model_dump()
JNone == <<>>                          \* None in a job record
UtcTimes == {7}                        \* the instants datetime.utcnow() returns
Statuses == {"pending", "processing", "completed", "failed"}

\* the record create_job stores
NewJobStarted(job_id, request, utcnow) ==
  [id |-> job_id, status |-> "processing", request |-> request,
   created_at |-> IsoFormat(utcnow), completed_at |-> JNone,
   result_file |-> JNone, error |-> JNone, progress |-> 0]
NewJob(job_id, request, utcnow) ==
  [id |-> job_id, status |-> "pending", request |-> request,
   created_at |-> IsoFormat(utcnow), completed_at |-> JNone,
   result_file |-> JNone, error |-> JNone, progress |-> 0]

\* uuid.uuid4(): an id no earlier call returned
FreshIds == JobIds \ DOMAIN jobs

\* jobs[job_id] = {...}
JobsAfterCreate(job_id, request, utcnow) ==
  [j \in DOMAIN jobs \cup {job_id} |->
     IF j = job_id THEN NewJob(job_id, request, utcnow) ELSE jobs[j]]

create_job(job_id, request, utcnow) ==
  /\ job_id \in FreshIds
  /\ jobs' = JobsAfterCreate(job_id, request, utcnow)
  /\ ret' = [op |-> "create_job", id |-> job_id, request |-> request]
  /\ UNCHANGED <<root, dirs, files, now, sv, ld, completed>>

\* keyword arguments of update_job: a field that is not given is NotGiven
NotGiven == <<"not given">>
NotGivenStr == "not given"
NotGivenInt == 0 - 1

KwStatus == Statuses \cup {NotGivenStr}
KwProgress == {NotGivenInt, 0, 100}
KwCompletedAt == {NotGiven, JNone} \cup { IsoFormat(t) : t \in UtcTimes }
KwResultFile == {NotGiven, <<"poster.png">>}
KwError == {NotGiven, <<"error">>}

\* the number of keyword arguments given
NumGiven(kw) ==
  (IF kw.status = NotGivenStr THEN 0 ELSE 1)
  + (IF kw.progress = NotGivenInt THEN 0 ELSE 1)
  + (IF kw.completed_at = NotGiven THEN 0 ELSE 1)
  + (IF kw.result_file = NotGiven THEN 0 ELSE 1)
  + (IF kw.error = NotGiven THEN 0 ELSE 1)

Kwargs ==
  { kw \in [status : KwStatus, progress : KwProgress, completed_at : KwCompletedAt,
            result_file : KwResultFile, error : KwError] : NumGiven(kw) <= MaxKwargs }

\* dict.update(kwargs)
DictUpdateStatusOnly(rec, kw) ==
  [rec EXCEPT !.status = IF kw.status = NotGivenStr THEN @ ELSE kw.status]
DictUpdate(rec, kw) ==
  [rec EXCEPT
     !.status = IF kw.status = NotGivenStr THEN @ ELSE kw.status,
     !.progress = IF kw.progress = NotGivenInt THEN @ ELSE kw.progress,
     !.completed_at = IF kw.completed_at = NotGiven THEN @ ELSE kw.completed_at,
     !.result_file = IF kw.result_file = NotGiven THEN @ ELSE kw.result_file,
     !.error = IF kw.error = NotGiven THEN @ ELSE kw.error]

\* if job_id in jobs: jobs[job_id].update(kwargs)
JobsAfterUpdateKeepsProgress(job_id, kw) ==
  IF job_id \in DOMAIN jobs
  THEN [jobs EXCEPT ![job_id] =
          [DictUpdate(jobs[job_id], kw) EXCEPT
             !.progress = IF jobs[job_id].progress > @ THEN jobs[job_id].progress ELSE @]]
  ELSE jobs
JobsAfterUpdate(job_id, kw) ==
  IF job_id \in DOMAIN jobs
  THEN [jobs EXCEPT ![job_id] = DictUpdate(jobs[job_id], kw)]
  ELSE jobs

update_job(job_id, kw) ==
  /\ jobs' = JobsAfterUpdate(job_id, kw)
  /\ ret' = [op |-> "update_job", id |-> job_id]
  /\ UNCHANGED <<root, dirs, files, now, sv, ld, completed>>

\* one update_job call, the caller keeping the keyword arguments it passed
UpdateJobCall(job_id, kw) ==
  /\ ret.op = "none"
  /\ jobs' = JobsAfterUpdate(job_id, kw)
  /\ ret' = [op |-> "update_job", id |-> job_id, kw |-> kw]
  /\ UNCHANGED <<root, dirs, files, now, sv, ld, completed>>

\* two tasks are each about to call update_job for the same job id; sv holds
\* the calls and the order in which they have run
UpdateTasksStart(job_id, kwA, kwB) ==
  /\ ret.op = "none"
  /\ sv = Idle
  /\ job_id \in DOMAIN jobs
  /\ sv' = [pc |-> "updates", id |-> job_id, kw |-> <<kwA, kwB>>, order |-> <<>>,
            before |-> jobs[job_id]]
  /\ UNCHANGED <<root, dirs, files, now, ld, ret, completed, jobs>>

\* the scheduler runs task p: update_job has no suspension point, so the call
\* runs from its first statement to its return in one step
UpdateTaskRuns(p) ==
  /\ sv.pc = "updates"
  /\ \A i \in 1..Len(sv.order) : sv.order[i] # p
  /\ jobs' = JobsAfterUpdate(sv.id, sv.kw[p])
  /\ IF Len(sv.order) = 1
     THEN /\ sv' = Idle
          /\ ret' = [op |-> "updates", id |-> sv.id, kw |-> sv.kw,
                     order |-> Append(sv.order, p), before |-> sv.before]
     ELSE /\ sv' = [sv EXCEPT !.order = Append(@, p)]
          /\ ret' = NoRet
  /\ UNCHANGED <<root, dirs, files, now, ld, completed>>

\* the records two concurrent update_job calls on one job can leave: each
\* call is one dict.update, so one call is through before the other starts
UpdateOutcomes(rec, kwA, kwB) ==
  { DictUpdate(DictUpdate(rec, kwA), kwB), DictUpdate(DictUpdate(rec, kwB), kwA) }

NoJob == [id |-> "None"]               \* jobs.get(job_id) is None

\* jobs.get(job_id)
JobsGetUnfinished(job_id) ==
  IF job_id \in DOMAIN jobs /\ jobs[job_id].status \notin {"completed", "failed"}
  THEN jobs[job_id] ELSE NoJob
JobsGet(job_id) == IF job_id \in DOMAIN jobs THEN jobs[job_id] ELSE NoJob

get_job(job_id) ==
  /\ ret' = [op |-> "get_job", id |-> job_id, out |-> JobsGet(job_id)]
  /\ UNCHANGED <<root, dirs, files, now, sv, ld, completed, jobs>>

list_jobs ==
  /\ ret' = [op |-> "list_jobs", out |-> { jobs[j] : j \in DOMAIN jobs }]
  /\ UNCHANGED <<root, dirs, files, now, sv, ld, completed, jobs>>

\* ------------------------------------------------------------ HTTP surface
\* request.url.path, split at the slashes; the query string is not part of it
ApiPrefix == <<"/", "api", "/">>
PostersPath == <<"/", "api", "/", "posters">>
ThemesPath == <<"/", "api", "/", "themes">>
HealthPath == <<"/", "health">>
JobPath(id) == <<"/", "api", "/", "jobs", "/", id>>
PosterPath(id) == <<"/", "api", "/", "posters", "/", id>>

\* the ids a client can ask for: those of the registry and one that is none of them
AskedIds == JobIds \cup {"nonexistent-job-id"}

ReadPaths ==
  {ThemesPath, HealthPath} \cup { JobPath(id) : id \in AskedIds }
    \cup { PosterPath(id) : id \in AskedIds }

\* the X-PAYMENT header of a request
Payments == {"absent", "empty", "invalid base64", "malformed json",
             "missing signature", "invalid signature", "valid"}

\* what else a client adds to get around the payment
Extras == {"nothing", "header", "query parameter", "body field"}

HttpRequests ==
  [method : {"POST"}, path : {PostersPath}, payment : Payments, extra : Extras,
   body : Requests]
    \cup [method : {"GET"}, path : ReadPaths, payment : Payments, extra : Extras,
          body : {"none"}]

\* APIOnlyPaymentMiddleware.dispatch: only /api/ paths go through the
\* payment middleware
ProtectedPathV1(path) == StartsWith(path, <<"/", "api", "/", "v1", "/">>)
ProtectedPath(path) == StartsWith(path, ApiPrefix)

\* the routes that carry the @pay decorator
PayDecoratedAll(method, path) == TRUE
PayDecorated(method, path) == method = "POST" /\ path = PostersPath

\* the status codes the payment middleware answers a proof it does not accept with
PaymentStatuses(payment) ==
  CASE payment \in {"absent", "empty"} -> {402}
    [] payment \in {"invalid base64", "malformed json"} -> {400, 402}
    [] payment \in {"missing signature", "invalid signature"} -> {400, 402, 500}
    [] OTHER -> {}

\* the request gets past the middleware to its route
ReachesRoute(req) ==
  \/ ~ProtectedPath(req.path)
  \/ ~PayDecorated(req.method, req.path)
  \/ req.payment = "valid"

\* the paths of the routes, of the static mount and of requests that are
\* close to the /api/ prefix
MiddlewarePaths ==
  {PostersPath, ThemesPath, HealthPath, <<"/">>, <<"/", "docs">>,
   <<"/", "static", "/", "app.js">>, <<"/", "API", "/", "POSTERS">>,
   <<"/", "Api", "/", "posters">>, <<"/", "api">>, <<"/", "api", "/">>,
   <<"/", "api", "/", "/", "posters">>, <<"/", "apis", "/", "posters">>}

MiddlewareRequests ==
  [method : {"GET", "POST"}, path : MiddlewarePaths, payment : Payments]

\* APIOnlyPaymentMiddleware.dispatch: how often the request is handed to the
\* payment middleware's dispatch and how often to call_next; the payment
\* middleware calls call_next once for a request it lets through
APIOnlyDispatchTwice(req) ==
  IF ProtectedPath(req.path)
  THEN [payment |-> 1, next |-> (IF ReachesRoute(req) THEN 1 ELSE 0) + 1]
  ELSE [payment |-> 0, next |-> 1]
APIOnlyDispatch(req) ==
  IF ProtectedPath(req.path)
  THEN [payment |-> 1, next |-> IF ReachesRoute(req) THEN 1 ELSE 0]
  ELSE [payment |-> 0, next |-> 1]

\* one request passes through APIOnlyPaymentMiddleware
MiddlewareCall(req) ==
  /\ ret.op = "none"
  /\ ret' = [op |-> "dispatch", req |-> req, handled |-> APIOnlyDispatch(req)]
  /\ UNCHANGED <<root, dirs, files, now, sv, ld, completed, jobs>>

\* the status codes the route of a GET request can answer with
ReadStatuses(path) ==
  CASE path \in {ThemesPath, HealthPath} -> {200}
    [] \E id \in DOMAIN jobs : path = JobPath(id) -> {200}
    [] \E id \in DOMAIN jobs : path = PosterPath(id) -> {200, 404}
    [] OTHER -> {404}

\* one HTTP request and its response
HttpCall(req, status, job_id, utcnow) ==
  /\ IF ~ReachesRoute(req)
     THEN /\ status \in PaymentStatuses(req.payment)
          /\ jobs' = jobs
     ELSE IF req.method = "POST"
     THEN /\ status = 200
          /\ job_id \in FreshIds
          /\ jobs' = JobsAfterCreate(job_id, req.body, utcnow)
     ELSE /\ status \in ReadStatuses(req.path)
          /\ jobs' = jobs
  /\ ret' = [op |-> "http", req |-> req, status |-> status]
  /\ UNCHANGED <<root, dirs, files, now, sv, ld, completed>>

\* ------------------------------------------------------------------ Init
Init ==
  /\ root = FALSE
  /\ dirs = {}
  /\ files = [k \in Keys |-> NoFiles]
  /\ now = 0
  /\ sv = Idle
  /\ ld = Idle
  /\ ret = NoRet
  /\ completed = {}
  /\ jobs = [j \in {} |-> NoJob]

\* the calls into the cache module, one after the other, and the clock
NextOps ==
  \/ \E loc \in SpecLocs, d \in DataSets, w \in BOOLEAN, p \in BOOLEAN, c \in CoordsArgs :
       SaveCall(loc, d, w, p, c)
  \/ \E ok \in BOOLEAN : SaveMkdir(ok)
  \/ \E outcome \in WriteOutcomes : SaveWrite(outcome)
  \/ \E loc \in SpecLocs : LoadCall(KeyOf(loc))
  \/ LoadAdvance
  \/ \E loc \in SpecLocs : IsCacheValidCall(KeyOf(loc))
  \/ \E loc \in SpecLocs : ClearCache(KeyOf(loc))
  \/ ClearAll
  \/ \E order \in IterOrders : ListCacheCall(order)
  \/ \E loc \in Locs, order \in IterOrders : FindCall(loc, order)
  \/ \E d \in TickDays : Tick(d)

\* the calls, and a process that can die inside save_to_cache
NextCrash ==
  \/ NextOps
  \/ \E mid \in BOOLEAN : Crash(mid)

\* the calls, crashes, and a cache directory that is also edited by hand
Next ==
  \/ NextCrash
  \/ \E loc \in SpecLocs, f \in FileNames : ExternalDelete(KeyOf(loc), f)
  \/ \E loc \in SpecLocs, field \in {"coords", "cached_at"} : ExternalStrip(KeyOf(loc), field)

SpecOps == Init /\ [][NextOps]_vars

SpecCrash == Init /\ [][NextCrash]_vars

Spec == Init /\ [][Next]_vars

NextJobs ==
  \/ \E id \in JobIds, r \in Requests, t \in UtcTimes : create_job(id, r, t)
  \/ \E id \in JobIds, kw \in Kwargs : update_job(id, kw)
  \/ \E id \in JobIds : get_job(id)
  \/ list_jobs

NextOverlap ==
  \/ \E loc \in SpecLocs, d \in DataSets, w \in BOOLEAN, p \in BOOLEAN :
       SaveCall(loc, d, w, p, <<48, 2>>)
  \/ \E loc \in SpecLocs, d \in DataSets, o \in BOOLEAN : OverlapCall(loc, d, o)
  \/ \E ok \in BOOLEAN : SaveMkdir(ok)
  \/ SaveOpens
  \/ \E outcome \in WriteOutcomes : SaveWrite(outcome)
  \/ LoadAdvance
  \/ \E d \in TickDays : Tick(d)

\* save_to_cache calls, alone or with a load_from_cache of the same key
\* running at the same time
SpecOverlap == Init /\ [][NextOverlap]_vars

NextRace ==
  \/ \E loc \in SpecLocs, oa \in BOOLEAN, ob \in BOOLEAN : RaceCall(loc, oa, ob)
  \/ \E p \in {1, 2}, ok \in BOOLEAN : RaceMkdir(p, ok)
  \/ \E p \in {1, 2}, outcome \in WriteOutcomes : RaceWrite(p, outcome)
  \/ RaceReturn
  \/ \E d \in TickDays : Tick(d)

\* pairs of save_to_cache calls for one key, their statements interleaved
SpecRace == Init /\ [][NextRace]_vars

SpecJobs == Init /\ [][NextJobs]_vars

\* the states save_to_cache, its failures and edits by hand leave an entry
\* directory of location loc in
EntryFiles(loc) ==
  { [f \in FileNames |->
       CASE f = "graph.pkl" -> g
         [] f = "meta.json" -> m
         [] OTHER -> Absent] :
      g \in {Absent, PickleBytes(1)},
      m \in {Absent, Truncated,
             JsonBytes([city |-> loc.city, country |-> loc.country,
                        distance |-> loc.distance, coords |-> ListOf(<<48, 2>>),
                        cached_at |-> IsoFormat(0)])} }

\* the entry has the files the save_to_cache calls for its own location leave
OwnFiles(k, fs) == \E loc \in Locs : KeyOf(loc) = k /\ fs \in EntryFiles(loc)

\* a cache directory with any entries in it, at day 0 or 31
InitDir ==
  /\ root \in BOOLEAN
  /\ dirs \in SUBSET Keys
  /\ ~root => dirs = {}
  /\ files \in [Keys -> UNION { EntryFiles(loc) : loc \in Locs }]
  /\ \A k \in Keys : IF k \in dirs THEN OwnFiles(k, files[k]) ELSE files[k] = NoFiles
  /\ now \in {0, MaxNow}
  /\ sv = Idle
  /\ ld = Idle
  /\ ret = NoRet
  /\ completed = {}
  /\ jobs = [j \in {} |-> NoJob]

NextDir ==
  \/ \E loc \in Locs, order \in IterOrders : FindCall(loc, order)
  \/ \E order \in IterOrders : ListCacheCall(order)
  \/ \E k \in Keys : ClearCache(k)
  \/ ClearAll

\* the directory-wide operations on every cache directory
SpecDir == InitDir /\ [][NextDir]_vars

NextMiddleware == \E req \in MiddlewareRequests : MiddlewareCall(req)

\* every request through APIOnlyPaymentMiddleware
SpecMiddleware == Init /\ [][NextMiddleware]_vars

NextFrame ==
  \/ /\ ret.op = "none"
     /\ \/ \E loc \in Locs, d \in DataSets, w \in BOOLEAN :
             SaveCall(loc, d, w, w, <<48, 2>>)
        \/ \E k \in Keys : LoadCall(k)
        \/ \E k \in Keys : IsCacheValidCall(k)
        \/ \E loc \in Locs, order \in IterOrders : FindCall(loc, order)
        \/ \E order \in IterOrders : ListCacheCall(order)
        \/ \E k \in Keys : ClearCache(k)
        \/ ClearAll
  \/ \E ok \in BOOLEAN : SaveMkdir(ok)
  \/ \E outcome \in WriteOutcomes : SaveWrite(outcome)
  \/ LoadAdvance

\* one call into the cache module, on every cache directory
SpecFrame == InitDir /\ [][NextFrame]_vars

\* the (city, country) pairs a caller of find_cached_location asks for
LookupCities == { <<"A", " ", "b">>, <<"a", "_", "b">>, <<"a">>, <<"A">>, <<"c">> }
LookupCountries == { <<"U">>, <<"u">>, <<"b", " ", "u">>, <<"B", "_", "U">> }
LookupRequests == [city : LookupCities, country : LookupCountries]

NextLookup ==
  /\ ret.op = "none"
  /\ \E req \in LookupRequests, order \in IterOrders : FindCall(req, order)

\* one find_cached_location call on every cache directory
SpecLookup == InitDir /\ [][NextLookup]_vars

NextKey ==
  /\ ret.op = "none"
  /\ \E city \in Strs(CityChars), country \in Strs(CountryChars), distance \in Distances :
       GetCacheKeyCall(city, country, distance)

\* get_cache_key applied to every (city, country, distance)
SpecKey == Init /\ [][NextKey]_vars

StatusCodes == {200, 400, 402, 404, 500}

NextApi ==
  \E req \in HttpRequests, status \in StatusCodes, id \in JobIds, t \in UtcTimes :
    HttpCall(req, status, id, t)

\* the HTTP requests of clients, paying or not
SpecApi == Init /\ [][NextApi]_vars

\* the records a job can have after create_job and any update_job calls
JobRecords ==
  [id : JobIds, status : Statuses, request : Requests,
   created_at : { IsoFormat(t) : t \in UtcTimes },
   completed_at : KwCompletedAt \ {NotGiven}, result_file : (KwResultFile \ {NotGiven}) \cup {JNone},
   error : (KwError \ {NotGiven}) \cup {JNone}, progress : KwProgress \ {NotGivenInt}]

\* the registries the calls can build: each record under its own id
Registries ==
  UNION { { r \in [S -> JobRecords] : \A j \in S : r[j].id = j } : S \in SUBSET JobIds }

InitUpdate ==
  /\ root = FALSE
  /\ dirs = {}
  /\ files = [k \in Keys |-> NoFiles]
  /\ now = 0
  /\ sv = Idle
  /\ ld = Idle
  /\ ret = NoRet
  /\ completed = {}
  /\ jobs \in Registries

\* the registries one create_job call builds
CreatedRegistries ==
  { [j \in {id} |-> NewJob(id, q, t)] : id \in JobIds, q \in Requests, t \in UtcTimes }

InitTasks ==
  /\ root = FALSE
  /\ dirs = {}
  /\ files = [k \in Keys |-> NoFiles]
  /\ now = 0
  /\ sv = Idle
  /\ ld = Idle
  /\ ret = NoRet
  /\ completed = {}
  /\ jobs \in CreatedRegistries

NextTasks ==
  \/ /\ ret.op = "none"
     /\ sv = Idle
     /\ \E id \in JobIds, kwA \in Kwargs, kwB \in Kwargs : UpdateTasksStart(id, kwA, kwB)
  \/ \E p \in {1, 2} : UpdateTaskRuns(p)

\* two tasks updating one job, in either order
SpecTasks == InitTasks /\ [][NextTasks]_vars

NextUpdate ==
  /\ ret.op = "none"
  /\ \E id \in JobIds, kw \in Kwargs : UpdateJobCall(id, kw)

\* update_job applied to every registry
SpecUpdate == InitUpdate /\ [][NextUpdate]_vars

\* ====================================================================
\* Properties of the cache (checked under Spec)
\* ====================================================================

\* the entry load_from_cache(k) returns now holds exactly what call c passed
RoundTrips(r, c) ==
  /\ ~r.exc
  /\ r.val.hit
  /\ r.val.graph = c.graph
  /\ r.val.water = c.water
  /\ r.val.parks = c.parks
  /\ r.val.coords = c.coords
  /\ now - FromIsoFormat(r.val.cached_at) < CACHE_EXPIRY_DAYS

\* C1: a save that returns True, followed at once by load of the same key,
\* gives back exactly the graph, water, parks and coords of that save (water
\* and parks None when None was saved) with cached_at inside the 30 days:
\* nothing of an earlier save of the key survives.
C1_SaveThenLoadRoundTrips ==
  (ret.op = "save" /\ ~ret.out.exc /\ ret.out.val)
    => RoundTrips(load_from_cache(ret.key), ret.call)

\* what the specification says is_cache_valid returns, with "age < 30 days"
ValidStrict(k) ==
  HasTimestamp(k) /\ Exists(k, "graph.pkl") /\ Age(k) < CACHE_EXPIRY_DAYS

\* the same with "age <= 30 days"
ValidWithinWindow(k) ==
  HasTimestamp(k) /\ Exists(k, "graph.pkl") /\ Age(k) <= CACHE_EXPIRY_DAYS

C3_ExpiredIsInvalidAndMisses ==
  /\ (ret.op = "is_cache_valid" /\ ExpiredEntry(ret.key)) => ret.out = Ok(FALSE)
  /\ (ret.op = "load" /\ ret.expiredAtCall) => ret.out = Ok(Miss)
  /\ (ret.op = "load" /\ ~ret.validAtCall) => ret.out = Ok(Miss)

\* a load of an expired entry with its graph, water, parks and meta in place
\* has returned
C3_Witness ==
  /\ ret.op = "load"
  /\ ret.expiredAtCall
  /\ ExpiredEntry(ret.key)
  /\ ~PickleLoad(ret.key, "graph.pkl").exc
  /\ ~PickleLoad(ret.key, "water.pkl").exc
  /\ ~PickleLoad(ret.key, "parks.pkl").exc

EntryFields == {"hit", "graph", "water", "parks", "coords", "city", "country",
                "distance", "cached_at"}

\* C4: in every cache state is_cache_valid returns a boolean and
\* load_from_cache returns a full entry or None; no exception reaches the caller.
C4_ReadsNeverRaise ==
  /\ ret.op = "is_cache_valid" => (~ret.out.exc /\ ret.out.val \in BOOLEAN)
  /\ ret.op = "load" =>
       /\ ~ret.out.exc
       /\ ret.out.val = Miss \/ (ret.out.val.hit /\ DOMAIN ret.out.val = EntryFields)

\* a load that passed the validity check has ended in a miss: a file was
\* removed or is unreadable, or meta.json lacks a field
C4_Witness ==
  /\ ret.op = "load"
  /\ ret.validAtCall
  /\ ret.out = Ok(Miss)

\* C5: save_to_cache reports every failure as False; no exception reaches
\* the caller, whichever step fails.
C5_SaveNeverRaises == ret.op = "save" => ~ret.out.exc

\* C6: list_cache and find_cached_location return normally even when some
\* entry's meta.json is unreadable or no valid JSON.
C6_ListAndFindNeverRaise == ret.op \in {"list", "find"} => ~ret.out.exc

\* the entry e holds exactly what the completed save c wrote
FromCompletedSave(e, c) ==
  /\ e.graph = c.call.graph
  /\ e.water = c.call.water
  /\ e.parks = c.call.parks
  /\ e.coords = c.call.coords
  /\ e.city = c.call.city
  /\ e.country = c.call.country
  /\ e.distance = c.call.distance
  /\ e.cached_at = IsoFormat(c.cached_at)

\* C7 as stated: after a save is interrupted, the next load of the key is a
\* miss or an entry whose graph, water, parks and metadata all come from one
\* completed save, for a first save and for an overwriting save alike.
C7_InterruptedSaveLeavesMissOrOneSave ==
  ret.op = "crash" =>
    LET r == load_from_cache(ret.key)
    IN /\ ~r.exc
       /\ \/ r.val = Miss
          \/ \E c \in completed : c.call.key = ret.key /\ FromCompletedSave(r.val, c)

\* C7 amended: after the interruption of a save to a key that had no
\* meta.json when the save started, the next load of the key is a miss.
C7_InterruptedFirstSaveMisses ==
  (ret.op = "crash" /\ ~ret.hadMeta) => load_from_cache(ret.key) = Ok(Miss)

\* a first save has been interrupted after it wrote graph.pkl and water.pkl
C7_Witness ==
  /\ ret.op = "crash"
  /\ ~ret.hadMeta
  /\ ~PickleLoad(ret.key, "graph.pkl").exc
  /\ ~PickleLoad(ret.key, "water.pkl").exc

\* ====================================================================
\* Properties of the job registry (checked under SpecJobs)
\* ====================================================================

Rank(status) ==
  CASE status = "pending" -> 0
    [] status = "processing" -> 1
    [] OTHER -> 2

\* a status change along pending -> processing -> {completed, failed}
Monotonic(a, b) == Rank(a) <= Rank(b) /\ (Rank(a) = 2 => a = b)

\* C8: no create or update call moves a job back to pending or processing,
\* or out of completed or failed.
C8_StatusIsMonotonic ==
  [][\A j \in DOMAIN jobs :
       j \in DOMAIN jobs' /\ Monotonic(jobs[j].status, jobs'[j].status)]_vars

\* C9: a completed or failed job has a completed_at, a pending or
\* processing job has none.
C9_CompletedAtIffFinal ==
  \A j \in DOMAIN jobs :
    (jobs[j].status \in {"completed", "failed"}) <=> (jobs[j].completed_at # JNone)

\* C10: create_job returns an id that was not in the registry, stores under
\* it a record with status pending, progress 0, the request, a creation
\* timestamp and None for completed_at, result_file and error, and leaves
\* every other record as it was.
C10_CreateStoresPendingRecord ==
  [][ret'.op = "create_job" =>
       LET id == ret'.id
       IN /\ id \notin DOMAIN jobs
          /\ DOMAIN jobs' = DOMAIN jobs \cup {id}
          /\ jobs'[id].id = id
          /\ jobs'[id].status = "pending"
          /\ jobs'[id].progress = 0
          /\ jobs'[id].request = ret'.request
          /\ jobs'[id].created_at \in { IsoFormat(t) : t \in UtcTimes }
          /\ jobs'[id].completed_at = JNone
          /\ jobs'[id].result_file = JNone
          /\ jobs'[id].error = JNone
          /\ \A j \in DOMAIN jobs : jobs'[j] = jobs[j]]_vars

\* create_job has returned while another job, already completed, was there
C10_Witness ==
  /\ ret.op = "create_job"
  /\ \E j \in DOMAIN jobs : j # ret.id /\ jobs[j].status = "completed"
  /\ jobs[ret.id].status = "pending"

JobFields == {"id", "status", "request", "created_at", "completed_at",
              "result_file", "error", "progress"}

\* the keyword argument f is given in kw
Given(kw, f) ==
  CASE f = "status" -> kw.status # NotGivenStr
    [] f = "progress" -> kw.progress # NotGivenInt
    [] f = "completed_at" -> kw.completed_at # NotGiven
    [] f = "result_file" -> kw.result_file # NotGiven
    [] f = "error" -> kw.error # NotGiven
    [] OTHER -> FALSE

\* the registry after the step holds, for job id, the given values in the
\* given fields and the old values in all the others, and every other record
\* as it was; for an unknown id the registry is the same
UpdateFrame(id, kw) ==
  IF id \in DOMAIN jobs
  THEN /\ DOMAIN jobs' = DOMAIN jobs
       /\ DOMAIN jobs'[id] = JobFields
       /\ \A f \in JobFields :
            jobs'[id][f] = IF Given(kw, f) THEN kw[f] ELSE jobs[id][f]
       /\ \A j \in DOMAIN jobs \ {id} : jobs'[j] = jobs[j]
  ELSE jobs' = jobs

\* C11: every update_job(id, fields) step on a known id sets exactly the
\* given fields of that record to the given values and changes no other field
\* and no other record; on an unknown id it returns normally, changes nothing
\* and creates no record.
C11_UpdateSetsExactlyGivenFields ==
  [][ret'.op = "update_job" => UpdateFrame(ret'.id, ret'.kw)]_vars

\* update_job has returned for a known job while another job with a result
\* was in the registry
C11_Witness ==
  /\ ret.op = "update_job"
  /\ ret.id \in DOMAIN jobs
  /\ Given(ret.kw, "status") /\ Given(ret.kw, "progress")
  /\ jobs[ret.id].status = "processing"
  /\ jobs[ret.id].progress = 100
  /\ \E j \in DOMAIN jobs : j # ret.id /\ jobs[j].result_file # JNone

\* C12: no step removes a job and only create_job adds one, under the id it
\* returns; get_job(id) returns the record stored under id, and not-found
\* exactly when no create_job has returned id; get_job and list_jobs leave
\* the registry as it is.
C12_GetFindsExactlyCreatedJobs ==
  [][/\ DOMAIN jobs \subseteq DOMAIN jobs'
     /\ \A id \in DOMAIN jobs' \ DOMAIN jobs : ret'.op = "create_job" /\ ret'.id = id
     /\ ret'.op = "create_job" => ret'.id \in DOMAIN jobs'
     /\ ret'.op = "get_job" =>
          /\ jobs' = jobs
          /\ ret'.out = IF ret'.id \in DOMAIN jobs THEN jobs[ret'.id] ELSE NoJob
     /\ ret'.op = "list_jobs" => jobs' = jobs]_vars

\* get_job has returned the record of a job that was created and later
\* completed, while the other id was never created
C12_Witness ==
  /\ ret.op = "get_job"
  /\ ret.id \in DOMAIN jobs
  /\ ret.out = jobs[ret.id]
  /\ ret.out.status = "completed"
  /\ DOMAIN jobs # JobIds

\* ====================================================================
\* Properties of get_cache_key (checked under SpecKey)
\* ====================================================================

\* the upper-case and the lower-case form of one letter
CasePairs == { {"A", "a"}, {"B", "b"}, {"U", "u"} }

SameLetter(a, b) == a = b \/ {a, b} \in CasePairs

\* the strings that differ from s in the case of letters only
CaseVariants(s, chars) ==
  { t \in [DOMAIN s -> chars] : \A i \in DOMAIN s : SameLetter(s[i], t[i]) }

\* s with every space turned into an underscore and every underscore into a space
SwapSpaces(s) ==
  [i \in DOMAIN s |-> IF s[i] = " " THEN "_" ELSE IF s[i] = "_" THEN " " ELSE s[i]]

\* C13: get_cache_key gives the same key for any two triples that differ only
\* in the case of city or country, and for a space in place of an underscore;
\* the key of the already normalized city and country is the same key.
C13_KeyIgnoresCaseAndSpaces ==
  ret.op = "get_cache_key" =>
    /\ \A c \in CaseVariants(ret.city, CityChars), k \in CaseVariants(ret.country, CountryChars) :
         get_cache_key(c, k, ret.distance) = ret.out
    /\ get_cache_key(SwapSpaces(ret.city), SwapSpaces(ret.country), ret.distance) = ret.out
    /\ get_cache_key(city_slug(ret.city), country_slug(ret.country), ret.distance) = ret.out

\* get_cache_key has returned for a city with an upper-case letter and a
\* space and an upper-case country
C13_Witness ==
  /\ ret.op = "get_cache_key"
  /\ ret.city = <<"A", " ">>
  /\ ret.country = <<"U">>
  /\ ret.out = <<"a", "_", "_", "u", "_", "1", "0">>

\* ====================================================================
\* Properties of find_cached_location (checked under SpecDir)
\* ====================================================================

\* the name k begins with p
HasPrefix(k, p) == Len(p) <= Len(k) /\ SubSeq(k, 1, Len(p)) = p

\* the entry directories whose name begins with the prefix of (city, country)
PrefixDirs(city, country) == { k \in dirs : HasPrefix(k, Prefix(city, country)) }

\* meta.json of entry k is there and parses
ReadableMeta(k) ==
  Len(files[k]["meta.json"]) = 2 /\ files[k]["meta.json"][1] = "json"

\* C14 as stated: find_cached_location returns a match exactly when some
\* entry directory has a name that begins with the normalized city_country_
\* prefix, whatever its distance suffix.
C14_FindMatchesIffPrefixDir ==
  ret.op = "find" =>
    /\ ~ret.out.exc
    /\ ret.out.val.hit <=> PrefixDirs(ret.city, ret.country) # {}

\* C14 amended: find_cached_location returns a match exactly when some entry
\* directory whose name begins with the prefix holds a meta.json that parses,
\* whatever its distance suffix, and the match is the metadata of such an
\* entry with its directory name as cache_key.
C14_FindMatchesIffReadablePrefixDir ==
  ret.op = "find" =>
    /\ ~ret.out.exc
    /\ ret.out.val.hit <=>
         \E k \in PrefixDirs(ret.city, ret.country) : ReadableMeta(k)
    /\ ret.out.val.hit =>
         /\ ret.out.val.cache_key \in PrefixDirs(ret.city, ret.country)
         /\ ReadableMeta(ret.out.val.cache_key)
         /\ ret.out.val.meta = files[ret.out.val.cache_key]["meta.json"][2]

\* find_cached_location has matched the entry of distance 10 while the entry
\* of distance 1 of the same city was there without a readable meta.json
C14_Witness ==
  /\ ret.op = "find"
  /\ ret.out.val.hit
  /\ ret.out.val.meta.distance = 10
  /\ Cardinality(PrefixDirs(ret.city, ret.country)) = 2
  /\ \E k \in PrefixDirs(ret.city, ret.country) : ~ReadableMeta(k)

\* ====================================================================
\* Properties of clear_cache and list_cache (checked under SpecOps)
\* ====================================================================

\* C15: clear_cache(key) removes the entry of key and leaves every other
\* entry as it was; clear_cache() removes every entry, and after it the cache
\* root exists and is empty, also when there was no root before the call.
C15_ClearRemovesAndRecreatesRoot ==
  [][/\ ret'.op = "clear" =>
          /\ dirs' = dirs \ {ret'.key}
          /\ files'[ret'.key] = NoFiles
          /\ \A k \in Keys \ {ret'.key} : files'[k] = files[k]
     /\ ret'.op = "clear_all" =>
          /\ root'
          /\ dirs' = {}
          /\ \A k \in Keys : files'[k] = NoFiles]_vars

\* the entry directories that contain a meta.json
ListedDirs == { k \in dirs : Exists(k, "meta.json") }

\* C16: list_cache returns one item for each entry directory that contains
\* a meta.json, the metadata stored there, whether or not the entry is
\* expired or lacks graph.pkl, and nothing for a directory without meta.json.
C16_ListReturnsEveryMeta ==
  ret.op = "list" =>
    /\ ~ret.out.exc
    /\ Len(ret.out.val) = Cardinality(ListedDirs)
    /\ { ret.out.val[i] : i \in DOMAIN ret.out.val }
         = { files[k]["meta.json"][2] : k \in ListedDirs }

\* ====================================================================
\* Optional blobs of an entry (checked under SpecCrash)
\* ====================================================================

MetaFields == {"city", "country", "distance", "coords", "cached_at"}

\* entry k is not expired and has a meta.json and a graph.pkl
UnexpiredEntry(k) ==
  HasTimestamp(k) /\ Age(k) <= CACHE_EXPIRY_DAYS /\ Exists(k, "graph.pkl")

\* the files entry k has are whole: meta.json holds all its fields, graph.pkl
\* unpickles, and so does each of water.pkl and parks.pkl that is there
IntactEntry(k) ==
  /\ MetaFields \subseteq DOMAIN files[k]["meta.json"][2]
  /\ ~PickleLoad(k, "graph.pkl").exc
  /\ \A f \in {"water.pkl", "parks.pkl"} : Exists(k, f) => ~PickleLoad(k, f).exc

\* the load returned the stored graph and coords, and None for each optional
\* blob whose file is not there
LoadedWithoutMissing(r, k) ==
  /\ ~r.exc
  /\ r.val.hit
  /\ r.val.graph = files[k]["graph.pkl"][2]
  /\ r.val.coords = files[k]["meta.json"][2]["coords"][2]
  /\ ~Exists(k, "water.pkl") => r.val.water = None
  /\ ~Exists(k, "parks.pkl") => r.val.parks = None

MissesOptional(k) == ~Exists(k, "water.pkl") \/ ~Exists(k, "parks.pkl")

\* C17 as stated: for an unexpired entry that has graph.pkl and meta.json
\* but no water.pkl (or no parks.pkl), load_from_cache succeeds and returns
\* None for the missing blob together with the stored graph and coords.
C17_LoadsWithoutOptionalBlob ==
  (ret.op = "load" /\ UnexpiredEntry(ret.key) /\ MissesOptional(ret.key))
    => LoadedWithoutMissing(ret.out, ret.key)

\* C17 amended: the same for an entry whose files are whole (meta.json with
\* all its fields, a graph.pkl that unpickles, and the other optional blob
\* absent or unpickling).
C17_LoadsIntactEntryWithoutOptionalBlob ==
  (ret.op = "load" /\ UnexpiredEntry(ret.key) /\ MissesOptional(ret.key)
     /\ IntactEntry(ret.key))
    => LoadedWithoutMissing(ret.out, ret.key)

\* a load of an entry with parks.pkl and without water.pkl has returned the
\* parks and water = None
C17_Witness ==
  /\ ret.op = "load"
  /\ UnexpiredEntry(ret.key)
  /\ ~Exists(ret.key, "water.pkl")
  /\ Exists(ret.key, "parks.pkl")
  /\ ret.out.val.hit
  /\ ret.out.val.water = None
  /\ ret.out.val.parks # None

\* ====================================================================
\* Properties of the payment boundary (checked under SpecApi)
\* ====================================================================

\* a POST /api/posters whose X-PAYMENT proof is not a valid one
UnpaidCreate(r) ==
  r.op = "http" /\ r.req.method = "POST" /\ r.req.path = PostersPath
    /\ r.req.payment # "valid"

BothSaved(r) ==
  r.op = "race" /\ \A p \in {1, 2} : r.procs[p].out = Ok(TRUE)

\* the entry e is, in all its parts, what call p of the race r saved
EntirelyFrom(e, r, p) ==
  FromCompletedSave(e, [call |-> r.procs[p].call, cached_at |-> r.procs[p].cached_at])

\* both calls passed a graph, water and parks
BothPassedAll(r) ==
  \A p \in {1, 2} : r.procs[p].call.water # None /\ r.procs[p].call.parks # None

\* C20 as stated, for two calls that each pass graph, water and parks: after
\* both concurrent save_to_cache calls for one key have returned, load(key)
\* (before the entry expires) returns an entry that consists entirely of the
\* data of one of the two calls, never a mixture of both.
C20_RaceLeavesOneCallsEntry ==
  (BothSaved(ret) /\ BothPassedAll(ret) /\ ~ExpiredEntry(ret.key)) =>
    LET r == load_from_cache(ret.key)
    IN /\ ~r.exc
       /\ r.val.hit
       /\ \E p \in {1, 2} : EntirelyFrom(r.val, ret, p)

\* the bytes call p of the race r has written to file f
RaceBytes(r, p, f) ==
  IF f = "meta.json"
  THEN JsonBytes(CompletedMeta([call |-> r.procs[p].call,
                                cached_at |-> r.procs[p].cached_at]))
  ELSE PickleBytes(BlobArg(r.procs[p].call, f))

\* C20 amended: after both calls have returned True, every file either call
\* wrote holds what the call that opened it last wrote (the last writer wins
\* file by file), and load(key) returns the graph of the last writer of
\* graph.pkl with the metadata of the last writer of meta.json (and likewise
\* the water and parks of their last writers, when both calls passed them and
\* the entry has not expired), which need not be the same call.
C20_RaceLastWriterWinsPerFile ==
  BothSaved(ret) =>
    /\ \A f \in FileNames :
         ret.last[f] # 0 => files[ret.key][f] = RaceBytes(ret, ret.last[f], f)
    /\ ret.last["graph.pkl"] # 0 /\ ret.last["meta.json"] # 0
    /\ (BothPassedAll(ret) /\ ~ExpiredEntry(ret.key)) =>
         LET r == load_from_cache(ret.key)
         IN /\ ~r.exc
            /\ r.val.hit
            /\ r.val.graph = ret.procs[ret.last["graph.pkl"]].call.graph
            /\ r.val.water = ret.procs[ret.last["water.pkl"]].call.water
            /\ r.val.parks = ret.procs[ret.last["parks.pkl"]].call.parks
            /\ r.val.cached_at = IsoFormat(ret.procs[ret.last["meta.json"]].cached_at)

\* both calls have returned True and the entry holds the graph of one call
\* under the metadata of the other, written 30 days apart
C20_Witness ==
  /\ BothSaved(ret)
  /\ ret.last["graph.pkl"] # ret.last["meta.json"]
  /\ ret.procs[1].cached_at # ret.procs[2].cached_at
  /\ load_from_cache(ret.key).val.hit

\* ---------------------------------------------------------------- C21
\* the object the snapshot o of an entry's files holds in blob f, None when
\* the file is not there
StoredBlob(o, f) == IF Len(o[f]) = 2 /\ o[f][1] = "pkl" THEN o[f][2] ELSE None

\* the snapshot o is a whole entry: meta.json with all its fields, a
\* graph.pkl that unpickles, water.pkl and parks.pkl absent or unpickling
WholeFiles(o) ==
  /\ Len(o["meta.json"]) = 2
  /\ o["meta.json"][1] = "json"
  /\ MetaFields \subseteq DOMAIN o["meta.json"][2]
  /\ Len(o["graph.pkl"]) = 2
  /\ o["graph.pkl"][1] = "pkl"
  /\ \A f \in {"water.pkl", "parks.pkl"} :
       o[f] = Absent \/ (Len(o[f]) = 2 /\ o[f][1] = "pkl")

\* the metadata a returned entry carries, as the dict of its meta.json
EntryMeta(e) ==
  [city |-> e.city, country |-> e.country, distance |-> e.distance,
   coords |-> ListOf(e.coords), cached_at |-> e.cached_at]

\* the entry e is, in all its parts, the entry stored in the snapshot o
IsOldEntry(e, o) ==
  /\ e.graph = StoredBlob(o, "graph.pkl")
  /\ e.water = StoredBlob(o, "water.pkl")
  /\ e.parks = StoredBlob(o, "parks.pkl")
  /\ JsonBytes(EntryMeta(e)) = o["meta.json"]

\* the entry e is, in all its parts, what the save call c writes
IsNewEntry(e, c) ==
  \E t \in 0..MaxNow : FromCompletedSave(e, [call |-> c, cached_at |-> t])

\* a load has returned that ran while a save was overwriting a valid, whole
\* entry of the same key
OverlappedLoad ==
  /\ ret.op = "load"
  /\ ret.overlaps.saving
  /\ ret.validAtCall
  /\ WholeFiles(ret.overlaps.old)

\* C21 as stated, for a save that passes graph, water and parks: a load that
\* runs concurrently with a save overwriting a valid entry of the same key
\* returns a miss, the complete old entry or the complete new entry, never a
\* combination of parts of both.
C21_OverlappedLoadSeesOldOrNew ==
  (OverlappedLoad /\ ret.overlaps.call.water # None
     /\ ret.overlaps.call.parks # None) =>
    /\ ~ret.out.exc
    /\ \/ ret.out.val = Miss
       \/ IsOldEntry(ret.out.val, ret.overlaps.old)
       \/ IsNewEntry(ret.out.val, ret.overlaps.call)

\* C21 amended: such a load returns a miss or an entry in which each part
\* taken by itself (the graph, the water, the parks, the metadata) is the
\* old entry's or the new save's; the parts need not come from the same one.
C21_OverlappedLoadSeesOldOrNewPerPart ==
  OverlappedLoad =>
    /\ ~ret.out.exc
    /\ \/ ret.out.val = Miss
       \/ LET e == ret.out.val
              o == ret.overlaps.old
              c == ret.overlaps.call
          IN /\ e.graph \in {StoredBlob(o, "graph.pkl"), c.graph}
             /\ e.water \in {StoredBlob(o, "water.pkl"), c.water}
             /\ e.parks \in {StoredBlob(o, "parks.pkl"), c.parks}
             /\ \/ JsonBytes(EntryMeta(e)) = o["meta.json"]
                \/ \E t \in 0..MaxNow :
                     EntryMeta(e) = CompletedMeta([call |-> c, cached_at |-> t])

\* a load overlapping an overwriting save has returned the new save's graph
\* under the old entry's metadata
C21_Witness ==
  /\ OverlappedLoad
  /\ ret.out.val.hit
  /\ ret.out.val.graph = ret.overlaps.call.graph
  /\ ret.out.val.graph # StoredBlob(ret.overlaps.old, "graph.pkl")
  /\ JsonBytes(EntryMeta(ret.out.val)) = ret.overlaps.old["meta.json"]

\* ---------------------------------------------------------------- C22
UpdateFields == {"status", "progress", "completed_at", "result_file", "error"}

\* the fields both keyword sets give, with different values
Contended(kwA, kwB) ==
  { f \in UpdateFields : Given(kwA, f) /\ Given(kwB, f) /\ kwA[f] # kwB[f] }

\* the record rec holds, in contended fields, a value of each call
MixedRecord(rec, kwA, kwB) ==
  \E f, g \in Contended(kwA, kwB) : rec[f] = kwA[f] /\ rec[g] = kwB[g]

C23_FoundEntryIsValid ==
  (ret.op = "find" /\ ~ret.out.exc /\ ret.out.val.hit) =>
    /\ is_cache_valid(ret.out.val.cache_key) = Ok(TRUE)
    /\ load_from_cache(ret.out.val.cache_key).val.hit

\* ---------------------------------------------------------------- C24
\* the step is one of is_cache_valid, load_from_cache, find_cached_location
\* or list_cache
ReadStep ==
  ret'.op \in {"is_cache_valid", "load", "find", "list"} \/ ld' # ld

\* the step is one of save_to_cache
SaveStep == sv' # sv

\* the key of the save_to_cache call that takes the step
SaveStepKey == IF sv.pc = "idle" THEN sv'.call.key ELSE sv.call.key

\* the step removes an entry directory or a file of an entry
RemovesEntry ==
  \E k \in Keys :
    \/ k \in dirs /\ k \notin dirs'
    \/ \E f \in FileNames : Exists(k, f) /\ files'[k][f] = Absent

\* C24: is_cache_valid, load_from_cache, find_cached_location and list_cache
\* leave the cache directory and every file of every entry unchanged, an
\* expired or incomplete entry included; save_to_cache(k, ...) changes no
\* entry other than k; an entry or a file of it is removed only by
\* clear_cache.
C24_OnlyClearRemovesEntries ==
  [][/\ ReadStep => UNCHANGED <<root, dirs, files>>
     /\ SaveStep =>
          \A k \in Keys \ {SaveStepKey} :
            files'[k] = files[k] /\ (k \in dirs' <=> k \in dirs)
     /\ RemovesEntry => ret'.op \in {"clear", "clear_all"}]_vars

\* a load of an expired entry has returned a miss while another entry exists,
\* and the expired entry is still on disk
C24_Witness ==
  /\ ret.op = "load"
  /\ ret.expiredAtCall
  /\ ret.out = Ok(Miss)
  /\ Exists(ret.key, "meta.json")
  /\ Exists(ret.key, "graph.pkl")
  /\ \E k \in dirs \ {ret.key} : Exists(k, "meta.json")

\* ---------------------------------------------------------------- C25
\* the path begins with the three segments "/", "api", "/", in this case
BeginsWithApi(path) == Len(path) >= 3 /\ SubSeq(path, 1, 3) = <<"/", "api", "/">>

\* C25: APIOnlyPaymentMiddleware hands a request to the payment middleware's
\* dispatch exactly when its path starts with "/api/" (case-sensitive); every
\* other path goes to the next handler once, without a payment check; no
\* request is handed to the payment check or to the next handler twice.
C25_PaymentCheckIffApiPrefix ==
  ret.op = "dispatch" =>
    /\ ret.handled.payment = 1 <=> BeginsWithApi(ret.req.path)
    /\ ~BeginsWithApi(ret.req.path) => (ret.handled.payment = 0 /\ ret.handled.next = 1)
    /\ ret.handled.payment <= 1
    /\ ret.handled.next <= 1

\* a POST of /API/POSTERS without a payment has gone to the next handler
\* with no payment check
C25_Witness ==
  /\ ret.op = "dispatch"
  /\ ret.req.path = <<"/", "API", "/", "POSTERS">>
  /\ ret.req.method = "POST"
  /\ ret.req.payment = "absent"
  /\ ret.handled = [payment |-> 0, next |-> 1]

\* ---------------------------------------------------------------- C26
\* C26: find_cached_location(city, country) only returns an entry saved for
\* that location: the city and the country in the returned metadata
\* normalize to the slugs of the requested city and country.
C26_FoundEntryIsOfRequestedLocation ==
  (ret.op = "find" /\ ~ret.out.exc /\ ret.out.val.hit) =>
    /\ city_slug(ret.out.val.meta.city) = city_slug(ret.city)
    /\ country_slug(ret.out.val.meta.country) = country_slug(ret.country)

\* ---------------------------------------------------------------- C27
\* C27: two (city, country, distance) triples yield the same cache key only
\* if their distances are equal and their cities and their countries are
\* each equal after normalization.
C27_KeyIdentifiesLocation ==
  ret.op = "get_cache_key" =>
    \A city \in Strs(CityChars), country \in Strs(CountryChars), distance \in Distances :
      get_cache_key(city, country, distance) = ret.out =>
        /\ distance = ret.distance
        /\ city_slug(city) = city_slug(ret.city)
        /\ country_slug(country) = country_slug(ret.country)

====
